---- MODULE Spec2Model ----
(***************************************************************************)
(* Link encoding, retrieval and delivery pipeline of the file-store bot,   *)
(* the expiry of delivered copies, and the broadcast commands.             *)
(*                                                                         *)
(* Text is modelled as a sequence of ASCII codes, so that formatting       *)
(* (str), parsing (int), base64 packing and padding are computed the way   *)
(* the Python code computes them.                                          *)
(***************************************************************************)
EXTENDS Integers, Sequences, FiniteSets, TLC

VARIABLES
    m,              \* abs(client.db_channel.id), the ChannelMagnitude
    deleted,        \* identifiers that no longer resolve in the archival channel
    pc,             \* position of the running handler
    link,           \* token of the deep link most recently produced
    origin,         \* which operation produced the link, and for which identifiers
    token,          \* start parameter received by start_command
    parsed,         \* start_command: outcome of decoding and splitting the token
    ids,            \* start_command / get_messages_batch: identifiers to fetch
    i,              \* get_messages_batch: offset of the current batch (0-based)
    messages,       \* get_messages_batch: accumulated result
    storeCalls,     \* every client.get_messages call made, in order
    raised,         \* TRUE when get_messages_batch let an exception escape
    sent_messages,  \* start_command: handles of the copies delivered
    copyLog,        \* every msg.copy call made, in order, with its outcome
    replies,        \* replies sent to the requester by the running handler
    del_timer,      \* persisted value of the delete_timer setting, None if never set
    tasks,          \* schedule_auto_delete tasks spawned with create_task
    now,            \* the clock, in units of the shortest delay
    batches,        \* every running or finished schedule_auto_delete call
    users,          \* the user collection of the database (the Directory)
    bcast,          \* locals of the running send_broadcast_chunk call
    contacts,       \* every platform call send_broadcast_chunk made, in order
    archive,        \* channel_post: outcome of every copy to the db channel
    cmd,            \* locals of the running broadcast command handler
    other           \* locals of a second send_broadcast_chunk call, suspended

\* state of schedule_auto_delete, and of send_broadcast_chunk
expiryVars == <<now, batches>>
broadcastVars == <<users, bcast, contacts>>

\* state of the broadcast command handlers, and of a concurrent broadcast
commandVars == <<cmd, other>>

\* state of the link handlers and of start_command
requestVars == <<m, deleted, pc, link, origin, token, parsed, ids, i, messages,
                 storeCalls, raised, sent_messages, copyLog, replies,
                 del_timer, tasks, archive>>

vars == <<requestVars, expiryVars, broadcastVars, commandVars>>

-----------------------------------------------------------------------------
(* Bounds of the model *)

MaxId == 3          \* small identifiers are 1..MaxId
MaxForged == 7      \* numeric fields of hand-written payloads are 0..MaxForged

SmallIds == 1..MaxId
Magnitudes == {3, 7}

-----------------------------------------------------------------------------
(* Text *)

\* Python None, kept apart from every identifier and every timer value
None == 0 - 1

\* truth value of an optional integer (if x:)
Truthy(x) == x # None /\ x # 0

\* ord(c) of the characters the model writes literally
Ord(c) == CASE c = "g" -> 103 [] c = "e" -> 101 [] c = "t" -> 116
            [] c = "x" -> 120 [] c = "-" -> 45 [] c = "_" -> 95
            [] c = "=" -> 61 [] c = "0" -> 48 [] c = "A" -> 65
            [] c = "a" -> 97

Dash == Ord("-")
Underscore == Ord("_")
PadChar == Ord("=")
Digit0 == Ord("0")

\* F(e), with e evaluated once
Let(e, F(_)) == CHOOSE r \in {F(x) : x \in {e}} : TRUE

RECURSIVE Str(_)
\* str(n) / f"{n}" for a non-negative integer
Str(n) == IF n < 10 THEN <<Digit0 + n>>
          ELSE Str(n \div 10) \o <<Digit0 + (n % 10)>>

IsDigit(c) == c >= Digit0 /\ c <= Digit0 + 9

\* int(s) raises ValueError unless s is a non-empty run of decimal digits
\* (the payload alphabet of the model has no sign, blank or underscore)
IsInt(s) == Len(s) > 0 /\ \A j \in 1..Len(s) : IsDigit(s[j])

RECURSIVE IntOfPrefix(_, _)
\* value of the first k decimal digits of s
IntOfPrefix(s, k) == IF k = 0 THEN 0
                     ELSE 10 * IntOfPrefix(s, k - 1) + (s[k] - Digit0)

\* int(s) for a run of decimal digits
IntOf(s) == IntOfPrefix(s, Len(s))

RECURSIVE SplitFrom(_, _, _, _)
\* fields of s from position lo on, split on sep, j being the scan position
SplitFrom(s, sep, j, lo) ==
    IF j > Len(s) THEN <<SubSeq(s, lo, Len(s))>>
    ELSE IF s[j] = sep
         THEN <<SubSeq(s, lo, j - 1)>> \o SplitFrom(s, sep, j + 1, j + 1)
         ELSE SplitFrom(s, sep, j + 1, lo)

\* string.split(sep)
Split(s, sep) == SplitFrom(s, sep, 1, 1)

\* s.strip(c): s without its leading and trailing run of c
Strip(s, c) ==
    LET keep == {j \in 1..Len(s) : s[j] # c}
    IN  IF keep = {} THEN <<>>
        ELSE SubSeq(s, CHOOSE j \in keep : \A k \in keep : j <= k,
                       CHOOSE j \in keep : \A k \in keep : j >= k)

-----------------------------------------------------------------------------
(* URL-safe base64 *)

\* character of the URL-safe alphabet for a 6-bit value
B64Char(v) == IF v < 26 THEN Ord("A") + v
              ELSE IF v < 52 THEN Ord("a") + (v - 26)
              ELSE IF v < 62 THEN Digit0 + (v - 52)
              ELSE IF v = 62 THEN Dash
              ELSE Underscore

\* 6-bit value of a character of the URL-safe alphabet
B64Val(c) == IF c >= Ord("A") /\ c < Ord("A") + 26 THEN c - Ord("A")
             ELSE IF c >= Ord("a") /\ c < Ord("a") + 26 THEN c - Ord("a") + 26
             ELSE IF IsDigit(c) THEN c - Digit0 + 52
             ELSE IF c = Dash THEN 62
             ELSE 63

\* byte k of b, 0 past its end
ByteAt(b, k) == IF k <= Len(b) THEN b[k] ELSE 0

\* base64.urlsafe_b64encode: every 3 bytes give 4 characters, the last
\* group being completed with "="
urlsafe_b64encode(b) ==
    LET data == (8 * Len(b) + 5) \div 6
        Sextet(k) ==
            LET q == 3 * ((k - 1) \div 4)
                pos == (k - 1) % 4
            IN  IF pos = 0 THEN ByteAt(b, q + 1) \div 4
                ELSE IF pos = 1
                THEN (ByteAt(b, q + 1) % 4) * 16 + ByteAt(b, q + 2) \div 16
                ELSE IF pos = 2
                THEN (ByteAt(b, q + 2) % 16) * 4 + ByteAt(b, q + 3) \div 64
                ELSE ByteAt(b, q + 3) % 64
    IN  [k \in 1..(4 * ((Len(b) + 2) \div 3)) |->
            IF k <= data THEN B64Char(Sextet(k)) ELSE PadChar]

\* base64.urlsafe_b64decode of a text t made of characters of the URL-safe
\* alphabet followed by "=": [ok, bytes]; ok = FALSE for binascii.Error (one
\* data character left over, or a last group short of its padding)
urlsafe_b64decode(t) ==
    LET data == Cardinality({k \in 1..Len(t) : t[k] # PadChar})
        pads == Len(t) - data
        Val(k) == B64Val(t[k])
        Byte(j) ==
            LET q == 4 * ((j - 1) \div 3)
                pos == (j - 1) % 3
            IN  IF pos = 0 THEN Val(q + 1) * 4 + Val(q + 2) \div 16
                ELSE IF pos = 1
                THEN (Val(q + 2) % 16) * 16 + Val(q + 3) \div 4
                ELSE (Val(q + 3) % 4) * 64 + Val(q + 4)
    IN  IF (data % 4) = 1 \/ ((data % 4) # 0 /\ pads < 4 - (data % 4))
        THEN [ok |-> FALSE, bytes |-> <<>>]
        ELSE [ok |-> TRUE, bytes |-> [j \in 1..((6 * data) \div 8) |-> Byte(j)]]

\* number of "=" put back by decode_string: -len(s) % 4
PadLen(n) == (4 - (n % 4)) % 4

\* the text s followed by n characters c
PadRight(s, n, c) == s \o [j \in 1..n |-> c]

\* HelperFunctions.encode_string
encode_string(string) ==
    Let(string, LAMBDA s :
        Let(urlsafe_b64encode(s), LAMBDA base64_bytes :
            Strip(base64_bytes, PadChar)))

\* bytes.decode("ascii") raises UnicodeDecodeError for a byte above 127
IsAscii(b) == \A j \in 1..Len(b) : b[j] < 128

\* decode_string as it would be without the padding being put back
decode_string_unpadded(base64_string) ==
    Let(Strip(base64_string, PadChar), LAMBDA stripped :
        Let(urlsafe_b64decode(stripped), LAMBDA dec :
            IF dec.ok /\ IsAscii(dec.bytes)
            THEN [ok |-> TRUE, string |-> dec.bytes]
            ELSE [ok |-> FALSE, string |-> <<>>]))

\* HelperFunctions.decode_string: [ok, string]; ok = FALSE when it raises
decode_string(base64_string) ==
    Let(Strip(base64_string, PadChar), LAMBDA stripped :
        Let(PadRight(stripped, PadLen(Len(stripped)), PadChar), LAMBDA padded :
            Let(urlsafe_b64decode(padded), LAMBDA dec :
                IF dec.ok /\ IsAscii(dec.bytes)
                THEN [ok |-> TRUE, string |-> dec.bytes]
                ELSE [ok |-> FALSE, string |-> <<>>])))

\* helper_func.encode / helper_func.decode
encode(string) == encode_string(string)
decode(base64_string) == decode_string(base64_string)

Get == <<Ord("g"), Ord("e"), Ord("t")>>

-----------------------------------------------------------------------------
(* Link producers *)

\* f"get-{a}"
SinglePayload(a) == Get \o <<Dash>> \o Str(a)

\* f"get-{a}-{b}"
RangePayload(a, b) == Get \o <<Dash>> \o Str(a) \o <<Dash>> \o Str(b)

\* genlink: token for the replied-to archive message msg_id
genlink_token(msg_id, mag) == encode(SinglePayload(msg_id * mag))

\* batch: token for the archive messages first_id .. second_id
batch_token(first_id, second_id, mag) ==
    encode(RangePayload(first_id * mag, second_id * mag))

\* channel_post: token for the message just archived as post_id
channel_post_token(post_id, mag) ==
    LET converted_id == post_id * mag
    IN  encode(SinglePayload(converted_id))

\* HelperFunctions.create_file_link
create_file_link(message_id, batch, start_id, end_id) ==
    LET string == IF batch /\ start_id # None /\ end_id # None
                  THEN RangePayload(start_id, end_id)
                  ELSE SinglePayload(message_id)
    IN  encode_string(string)

-----------------------------------------------------------------------------
(* start_command: decoding *)

\* len(range(a, b, step)), step # 0
PyRangeLen(a, b, step) ==
    IF step > 0 THEN (IF a < b THEN (b - a + step - 1) \div step ELSE 0)
    ELSE (IF a > b THEN (a - b - step - 1) \div (0 - step) ELSE 0)

\* list(range(a, b, step))
PyRange(a, b, step) ==
    [k \in 1..PyRangeLen(a, b, step) |-> a + (k - 1) * step]

\* int(a / b) for a >= 0, b > 0: the float quotient truncated towards zero
\* (exact for the magnitudes of the model, which stay far below 2^53)
IntTrueDiv(a, b) == a \div b

NotParsed == [status |-> "none", argument |-> <<>>, start |-> 0, end |-> 0,
              ids |-> <<>>]

\* ResolveFields with "elif len(argument) >= 2" for the single-link branch
ResolveFields_lenient(argument, mag) ==
    IF Len(argument) >= 2 /\ Len(argument) # 3 THEN
        IF IsInt(argument[2]) THEN
            LET only == IntTrueDiv(IntOf(argument[2]), mag)
            IN  [status |-> "ids", argument |-> argument,
                 start |-> only, end |-> only, ids |-> <<only>>]
        ELSE [NotParsed EXCEPT !.status = "return", !.argument = argument]
    ELSE IF Len(argument) = 3 THEN
        IF IsInt(argument[2]) /\ IsInt(argument[3]) THEN
            LET start == IntTrueDiv(IntOf(argument[2]), mag)
                end == IntTrueDiv(IntOf(argument[3]), mag)
            IN  [status |-> "ids", argument |-> argument,
                 start |-> start, end |-> end,
                 ids |-> IF start <= end THEN PyRange(start, end + 1, 1)
                         ELSE PyRange(start, end - 1, -1)]
        ELSE [NotParsed EXCEPT !.status = "return", !.argument = argument]
    ELSE [NotParsed EXCEPT !.status = "ids", !.argument = argument]

\* ResolveFields with "ids = range(start, end + 1)" whatever the order
ResolveFields_ascending(argument, mag) ==
    IF Len(argument) = 3 THEN
        IF IsInt(argument[2]) /\ IsInt(argument[3]) THEN
            LET start == IntTrueDiv(IntOf(argument[2]), mag)
                end == IntTrueDiv(IntOf(argument[3]), mag)
            IN  [status |-> "ids", argument |-> argument,
                 start |-> start, end |-> end,
                 ids |-> PyRange(start, end + 1, 1)]
        ELSE [NotParsed EXCEPT !.status = "return", !.argument = argument]
    ELSE IF Len(argument) = 2 THEN
        IF IsInt(argument[2]) THEN
            LET only == IntTrueDiv(IntOf(argument[2]), mag)
            IN  [status |-> "ids", argument |-> argument,
                 start |-> only, end |-> only, ids |-> <<only>>]
        ELSE [NotParsed EXCEPT !.status = "return", !.argument = argument]
    ELSE [NotParsed EXCEPT !.status = "ids", !.argument = argument]

\* lines 41-56: the identifiers named by the fields of the decoded payload
ResolveFields(argument, mag) ==
    IF Len(argument) = 3 THEN
        IF IsInt(argument[2]) /\ IsInt(argument[3]) THEN
            LET start == IntTrueDiv(IntOf(argument[2]), mag)
                end == IntTrueDiv(IntOf(argument[3]), mag)
            IN  [status |-> "ids", argument |-> argument,
                 start |-> start, end |-> end,
                 ids |-> IF start <= end THEN PyRange(start, end + 1, 1)
                         ELSE PyRange(start, end - 1, -1)]
        ELSE [NotParsed EXCEPT !.status = "return", !.argument = argument]
    ELSE IF Len(argument) = 2 THEN
        IF IsInt(argument[2]) THEN
            LET only == IntTrueDiv(IntOf(argument[2]), mag)
            IN  [status |-> "ids", argument |-> argument,
                 start |-> only, end |-> only, ids |-> <<only>>]
        ELSE [NotParsed EXCEPT !.status = "return", !.argument = argument]
    ELSE [NotParsed EXCEPT !.status = "ids", !.argument = argument]

\* start_command, lines 37-56: decode the start parameter, split it on "-"
\* and derive the identifiers.  status is "error" when decode raises (outer
\* handler), "return" when int() raises (logged, silent return), else "ids".
ResolveToken(base64_string, mag) ==
    Let(decode(base64_string), LAMBDA dec :
        IF ~dec.ok THEN [NotParsed EXCEPT !.status = "error"]
        ELSE Let(Split(dec.string, Dash), LAMBDA argument :
                 ResolveFields(argument, mag)))

NoOrigin == [op |-> "none", first |-> 0, last |-> 0]

-----------------------------------------------------------------------------
(* The archival channel and the settings store *)

batch_size == 100

Min(a, b) == IF a <= b THEN a ELSE b

\* client.get_messages(chat_id=db_channel.id, message_ids=batch_ids) when it
\* returns: one entry per requested identifier, an empty message standing for
\* an identifier that resolves to nothing
StoreGet(batch_ids) ==
    [j \in 1..Len(batch_ids) |->
        [id |-> batch_ids[j], empty |-> batch_ids[j] \in deleted]]

\* outcomes of one call to the platform
CallOutcomes == {"ok", "flood", "error"}

\* methods class DatabaseManager defines
DatabaseManagerMethods ==
    {"health_check", "present_user", "add_user", "del_user", "full_userbase",
     "get_user_count", "admin_exist", "add_admin", "del_admin",
     "get_all_admins", "ban_user_exist", "add_ban_user", "del_ban_user",
     "get_ban_users", "channel_exist", "add_channel", "rem_channel",
     "show_channels", "get_channel_mode", "set_channel_mode", "set_del_timer",
     "get_del_timer", "req_user", "del_req_user", "req_user_exist",
     "reqChannel_exist", "has_pending_request", "get_all_channels",
     "is_admin", "cleanup_old_data", "get_stats"}

DefaultDelTimer == 600

\* DatabaseManager.get_del_timer
get_del_timer == IF del_timer # None THEN del_timer ELSE DefaultDelTimer

-----------------------------------------------------------------------------
(* get_messages_batch *)

\* BatchAt with the slice one element short: message_ids[i:i + batch_size - 1]
BatchAt_short(message_ids, off) ==
    SubSeq(message_ids, off + 1, Min(off + batch_size - 1, Len(message_ids)))

\* message_ids[i:i + batch_size]
BatchAt(message_ids, off) ==
    SubSeq(message_ids, off + 1, Min(off + batch_size, Len(message_ids)))

\* OnOutcome with a rate-limited retry retried again
OnOutcome_retry_again(attempt, outcome) ==
    IF outcome = "ok" THEN "extend"
    ELSE IF outcome = "flood" THEN "retry"
    ELSE "drop"

\* OnOutcome with no handler for errors other than FloodWait
OnOutcome_abort(attempt, outcome) ==
    IF outcome = "ok" THEN "extend"
    ELSE IF attempt = 1 /\ outcome = "flood" THEN "retry"
    ELSE IF attempt = 1 THEN "raise"
    ELSE "drop"

\* what get_messages_batch does with the outcome of a store call:
\* attempt 1 is the call of line 204, attempt 2 the retry of line 223
OnOutcome(attempt, outcome) ==
    IF outcome = "ok" THEN "extend"
    ELSE IF attempt = 1 /\ outcome = "flood" THEN "retry"
    ELSE "drop"

\* the effect of one store call on the loop of get_messages_batch
FetchStep(attempt, outcome) ==
    \E batch_ids \in {BatchAt(ids, i)}, todo \in {OnOutcome(attempt, outcome)} :
        /\ storeCalls' = Append(storeCalls,
                [offset |-> i, batch |-> batch_ids, attempt |-> attempt,
                 outcome |-> outcome])
        /\ messages' = IF todo = "extend" THEN messages \o StoreGet(batch_ids)
                       ELSE messages
        /\ raised' = (todo = "raise")
        /\ i' = IF todo \in {"extend", "drop"} THEN i + batch_size ELSE i
        /\ pc' = IF todo = "retry" THEN "retry"
                 ELSE IF todo = "raise" THEN "fetched"
                 ELSE "fetch"

\* lines 200-215 and 236-238: first call for the batch at offset i
GetMessagesCall ==
    /\ pc = "fetch"
    /\ i < Len(ids)
    /\ \E outcome \in CallOutcomes : FetchStep(1, outcome)
    /\ UNCHANGED <<expiryVars, broadcastVars, commandVars, archive, m, deleted, link, origin, token, parsed, ids,
                   sent_messages, copyLog, replies, del_timer, tasks>>

\* lines 217-234: after the FloodWait sleep, the one retry of the batch
GetMessagesRetry ==
    /\ pc = "retry"
    /\ \E outcome \in CallOutcomes : FetchStep(2, outcome)
    /\ UNCHANGED <<expiryVars, broadcastVars, commandVars, archive, m, deleted, link, origin, token, parsed, ids,
                   sent_messages, copyLog, replies, del_timer, tasks>>

\* lines 194-196 and 240-241: nothing (left) to fetch, return messages
GetMessagesReturn ==
    /\ pc = "fetch"
    /\ i >= Len(ids)
    /\ pc' = "fetched"
    /\ UNCHANGED <<expiryVars, broadcastVars, commandVars, archive, m, deleted, link, origin, token, parsed, ids, i, messages,
                   storeCalls, raised, sent_messages, copyLog, replies,
                   del_timer, tasks>>

-----------------------------------------------------------------------------
(* Handlers that produce a deep link *)

\* the variables of a start_command run, as they are before any request
RequestIdle ==
    /\ token' = <<>>
    /\ parsed' = NotParsed
    /\ UNCHANGED <<ids, i, messages, storeCalls, raised, sent_messages,
                   copyLog, tasks>>

\* a handler that ends with one reply and produces no link
NoLink(reply) ==
    /\ pc' = "done"
    /\ replies' = <<reply>>
    /\ UNCHANGED <<link, origin>>

\* a handler that replies with a link made for the identifiers first..last
NewLink(op, tok, first, last) ==
    /\ pc' = "linked"
    /\ link' = tok
    /\ origin' = [op |-> op, first |-> first, last |-> last]
    /\ replies' = <<"link">>

\* genlink: msg_id is what get_message_id returned for the replied-to
\* message, has_reply whether the command replies to a message at all
genlink ==
    /\ pc = "idle"
    /\ \E has_reply \in BOOLEAN, msg_id \in SmallIds \cup {None, 0} :
          IF ~has_reply THEN NoLink("reply_to_a_message")
          ELSE IF Truthy(msg_id)
               THEN NewLink("genlink", genlink_token(msg_id, m), msg_id, msg_id)
               ELSE NoLink("invalid_message")
    /\ RequestIdle
    /\ UNCHANGED <<expiryVars, broadcastVars, commandVars, archive, m, deleted, del_timer>>

\* batch: first_id / second_id are what get_message_id returned, listened
\* whether client.listen delivered the second message before the timeout
batch ==
    /\ pc = "idle"
    /\ \E has_reply \in BOOLEAN, listened \in BOOLEAN,
          first_id \in SmallIds \cup {None}, second_id \in SmallIds \cup {None} :
          IF ~has_reply THEN NoLink("reply_to_first_message")
          ELSE IF ~Truthy(first_id) THEN NoLink("invalid_first_message")
          ELSE IF ~listened THEN NoLink("timeout")
          ELSE IF Truthy(second_id)
               THEN NewLink("batch", batch_token(first_id, second_id, m),
                            first_id, second_id)
               ELSE NoLink("invalid_second_message")
    /\ RequestIdle
    /\ UNCHANGED <<expiryVars, broadcastVars, commandVars, archive, m, deleted, del_timer>>

\* channel_post: the incoming message is copied to the archival channel,
\* which assigns post_id.  A FloodWait reaches a handler that names asyncio,
\* which channel_post.py does not import: the NameError leaves the handler.
\* archive records the message.copy(client.db_channel.id) calls of the run.
channel_post ==
    /\ pc = "idle"
    /\ \E outcome \in CallOutcomes, post_id \in SmallIds :
          /\ archive' = <<outcome>>
          /\ IF outcome = "ok"
             THEN NewLink("channel_post", channel_post_token(post_id, m),
                          post_id, post_id)
             ELSE IF outcome = "flood" THEN NoLink("unhandled_NameError")
             ELSE NoLink("error_storing_file")
    /\ RequestIdle
    /\ UNCHANGED <<expiryVars, broadcastVars, commandVars, m, deleted, del_timer>>

\* a call of HelperFunctions.create_file_link
CreateFileLink ==
    /\ pc = "idle"
    /\ \E message_id \in SmallIds, is_batch \in BOOLEAN,
          start_id \in SmallIds \cup {None}, end_id \in SmallIds \cup {None} :
          LET ranged == is_batch /\ start_id # None /\ end_id # None
          IN  NewLink("create_file_link",
                      create_file_link(message_id, is_batch, start_id, end_id),
                      IF ranged THEN start_id ELSE message_id,
                      IF ranged THEN end_id ELSE message_id)
    /\ RequestIdle
    /\ UNCHANGED <<expiryVars, broadcastVars, commandVars, archive, m, deleted, del_timer>>

-----------------------------------------------------------------------------
(* start_command *)

\* payloads a requester can write by hand
ForgedPayloads ==
    {Get, Get \o <<Dash>>, Get \o <<Dash, Ord("x")>>,
     Get \o <<Dash, Ord("x"), Dash>> \o Str(MaxForged),
     RangePayload(MaxForged, MaxForged) \o <<Dash>> \o Str(MaxForged)}
    \cup {SinglePayload(a) : a \in 0..MaxForged}
    \cup {RangePayload(a, b) : a, b \in 0..MaxForged}

\* start parameters that are not the encoding of any text: "A" and "____"
RawTokens == {<<Ord("A")>>, <<Ord("_"), Ord("_"), Ord("_"), Ord("_")>>}

ForgedTokens == {encode(p) : p \in ForgedPayloads} \cup RawTokens \cup {<<>>}

\* lines 15-58: admin check, menu, decoding of the start parameter, and the
\* "Downloading files..." reply that precedes the fetch
StartRequest(tok, is_admin) ==
    \E r \in {ResolveToken(tok, m)} :
    LET go == is_admin /\ Len(tok) > 0 /\ r.status = "ids"
    IN  /\ token' = tok
        /\ parsed' = IF is_admin /\ Len(tok) > 0 THEN r ELSE NotParsed
        /\ replies' = IF ~is_admin THEN <<"access_denied">>
                      ELSE IF Len(tok) = 0 THEN <<"menu">>
                      ELSE IF r.status = "error" THEN <<"error">>
                      ELSE IF r.status = "return" THEN <<>>
                      ELSE <<"downloading">>
        /\ ids' = IF go THEN r.ids ELSE <<>>
        /\ pc' = IF go THEN "fetch" ELSE "done"
        /\ i' = 0
        /\ messages' = <<>>
        /\ storeCalls' = <<>>
        /\ raised' = FALSE
        /\ sent_messages' = <<>>
        /\ copyLog' = <<>>
        /\ UNCHANGED <<expiryVars, broadcastVars, commandVars, archive, m, deleted, link, origin, del_timer, tasks>>

\* /start <token> with the token of the link just produced
StartWithLink ==
    /\ pc = "linked"
    /\ \E is_admin \in BOOLEAN : StartRequest(link, is_admin)

\* /start <token> with a token written by hand, or none
StartWithForged ==
    /\ pc = "idle"
    /\ \E tok \in ForgedTokens, is_admin \in BOOLEAN : StartRequest(tok, is_admin)

\* lines 59-69: get_messages has returned or raised
FetchReturned ==
    /\ pc = "fetched"
    /\ pc' = IF raised THEN "done" ELSE "copy"
    /\ replies' = IF raised THEN Append(replies, "failed_to_get_files")
                  ELSE replies
    /\ sent_messages' = <<>>
    /\ UNCHANGED <<expiryVars, broadcastVars, commandVars, archive, m, deleted, link, origin, token, parsed, ids, i, messages,
                   storeCalls, raised, copyLog, del_timer, tasks>>

\* handle returned by msg.copy
Copied(msg) == [copy_of |-> msg.id]

\* CopyMessage with no try/except around msg.copy: a failed copy reaches the
\* outer handler and ends the request
CopyMessage_abort ==
    /\ pc = "copy"
    /\ Len(copyLog) < Len(messages)
    /\ \E ok \in BOOLEAN :
          LET msg == messages[Len(copyLog) + 1]
          IN  /\ copyLog' = Append(copyLog, [msg |-> msg, ok |-> ok])
              /\ sent_messages' = IF ok THEN Append(sent_messages, Copied(msg))
                                  ELSE sent_messages
              /\ pc' = IF ok THEN pc ELSE "done"
              /\ replies' = IF ok THEN replies ELSE Append(replies, "error")
    /\ UNCHANGED <<expiryVars, broadcastVars, commandVars, archive, m, deleted, link, origin, token, parsed, ids, i,
                   messages, storeCalls, raised, del_timer, tasks>>

\* lines 70-85: one iteration of the delivery loop
CopyMessage ==
    /\ pc = "copy"
    /\ Len(copyLog) < Len(messages)
    /\ \E ok \in BOOLEAN :
          LET msg == messages[Len(copyLog) + 1]
          IN  /\ copyLog' = Append(copyLog, [msg |-> msg, ok |-> ok])
              /\ sent_messages' = IF ok THEN Append(sent_messages, Copied(msg))
                                  ELSE sent_messages
    /\ UNCHANGED <<expiryVars, broadcastVars, commandVars, archive, m, deleted, pc, link, origin, token, parsed, ids, i,
                   messages, storeCalls, raised, replies, del_timer, tasks>>

\* lines 87-102: after the loop, db.get_auto_delete_time() is looked up; the
\* AttributeError of a missing method reaches the outer handler
AfterDelivery ==
    /\ pc = "copy"
    /\ Len(copyLog) = Len(messages)
    /\ pc' = "done"
    /\ IF "get_auto_delete_time" \in DatabaseManagerMethods
       THEN LET auto_delete_time == get_del_timer
            IN  IF auto_delete_time > 0
                THEN /\ replies' = Append(replies, "notification")
                     /\ tasks' = Append(tasks,
                            [messages |-> sent_messages,
                             delete_after |-> auto_delete_time])
                ELSE UNCHANGED <<replies, tasks>>
       ELSE /\ replies' = Append(replies, "error")
            /\ UNCHANGED tasks
    /\ UNCHANGED <<expiryVars, broadcastVars, commandVars, archive, m, deleted, link, origin, token, parsed, ids, i, messages,
                   storeCalls, raised, sent_messages, copyLog, del_timer>>

\* no schedule_auto_delete call was made, no send_broadcast_chunk call runs
NothingScheduled == now = 0 /\ batches = <<>>

NoBroadcast == [pc |-> "none"]

NoBroadcastRunning == users = {} /\ bcast = NoBroadcast /\ contacts = <<>>

\* no broadcast command is being handled
NoCmd == [pc |-> "none"]

NoCommand == cmd = NoCmd /\ other = NoBroadcast

-----------------------------------------------------------------------------
(* Specifications *)

Init ==
    /\ m \in Magnitudes
    /\ deleted \in SUBSET SmallIds
    /\ pc = "idle"
    /\ link = <<>>
    /\ origin = NoOrigin
    /\ token = <<>>
    /\ parsed = NotParsed
    /\ ids = <<>>
    /\ i = 0
    /\ messages = <<>>
    /\ storeCalls = <<>>
    /\ raised = FALSE
    /\ sent_messages = <<>>
    /\ copyLog = <<>>
    /\ replies = <<>>
    /\ del_timer = None
    /\ tasks = <<>>
    /\ archive = <<>>
    /\ NothingScheduled
    /\ NoBroadcastRunning
    /\ NoCommand

Next ==
    \/ genlink
    \/ batch
    \/ channel_post
    \/ CreateFileLink
    \/ StartWithLink
    \/ StartWithForged
    \/ GetMessagesCall
    \/ GetMessagesRetry
    \/ GetMessagesReturn
    \/ FetchReturned
    \/ CopyMessage
    \/ AfterDelivery

Spec == Init /\ [][Next]_vars

\* get_messages_batch on its own, for identifier lists of up to three batches
CeilDiv(a, b) == (a + b - 1) \div b

FetchSizes == (0..MaxId) \cup {batch_size - 1, batch_size, batch_size + 1,
                               2 * batch_size, 2 * batch_size + batch_size \div 2}

FetchInputs ==
    {PyRange(a, a + n, 1) : a \in SmallIds, n \in FetchSizes}
    \cup {PyRange(a + n - 1, a - 1, -1) : a \in SmallIds, n \in FetchSizes}
    \cup {<<MaxId + 2, MaxId, MaxId + 6>>}

FetchInit ==
    /\ m \in Magnitudes
    /\ deleted \in SUBSET SmallIds
    /\ pc = "fetch"
    /\ ids \in FetchInputs
    /\ link = <<>>
    /\ origin = NoOrigin
    /\ token = <<>>
    /\ parsed = NotParsed
    /\ i = 0
    /\ messages = <<>>
    /\ storeCalls = <<>>
    /\ raised = FALSE
    /\ sent_messages = <<>>
    /\ copyLog = <<>>
    /\ replies = <<>>
    /\ del_timer = None
    /\ tasks = <<>>
    /\ archive = <<>>
    /\ NothingScheduled
    /\ NoBroadcastRunning
    /\ NoCommand

FetchNext ==
    \/ GetMessagesCall
    \/ GetMessagesRetry
    \/ GetMessagesReturn

SpecFetch == FetchInit /\ [][FetchNext]_vars

-----------------------------------------------------------------------------
(* schedule_auto_delete *)

MaxLen == 2         \* messages handed to one call

\* the schedule_auto_delete calls of one behaviour, in the order they start
Calls == {1, 2}

\* values of delete_after, and clock values at which a call can start
Delays == {0, 1}
StartTimes == {0, 1}

Max(S) == CHOOSE x \in S : \A y \in S : y <= x

\* the clock runs until every delay that can be started has elapsed
MaxTime == Max(StartTimes) + Max(Delays)

\* handle of the j-th copy delivered by delivery t: no two deliveries share
\* a handle
Handle(t, j) == (t - 1) * MaxLen + j

\* the lists start_command can hand over for delivery t; an entry is None
\* where msg.copy returned nothing
MessageLists(t) ==
    UNION {{[j \in 1..n |-> IF keep[j] THEN Handle(t, j) ELSE None] :
              keep \in [1..n -> BOOLEAN]} : n \in 0..MaxLen}

\* locals of a schedule_auto_delete call that has reached asyncio.sleep
NewBatch(t, messages_, delete_after) ==
    [messages |-> messages_, notification_msg |-> t,
     delete_after |-> delete_after, started |-> now, pc |-> "sleep",
     k |-> 0, deleted_count |-> 0, log |-> <<>>]

\* SleepOver with a sleep that returns at once
SleepOver_at_once(b) == TRUE

\* SleepOver with a sleep that never returns
SleepOver_never(b) == FALSE

\* line 375: asyncio.sleep(delete_after) has returned
SleepOver(b) == now >= b.started + b.delete_after

\* lines 379-380: position of the next entry of messages that passes
\* "if msg:", 0 when the loop is over
NextTruthy(b) ==
    LET rest == {j \in (b.k + 1)..Len(b.messages) : Truthy(b.messages[j])}
    IN  IF rest = {} THEN 0
        ELSE CHOOSE j \in rest : \A x \in rest : j <= x

\* Target reading the list of the first call
Target_first_call(bs, t, j) ==
    IF j <= Len(bs[1].messages) THEN bs[1].messages[j] ELSE bs[t].messages[j]

\* line 379: msg, the j-th entry of the call's own list
Target(bs, t, j) == bs[t].messages[j]

\* CountAfter counting attempts
CountAfter_attempts(count, ok) == count + 1

\* lines 382-385: deleted_count += 1 unless msg.delete() raised
CountAfter(count, ok) == IF ok THEN count + 1 ELSE count

\* AfterDelete with a failed delete leaving the loop
AfterDelete_stop_on_failure(b, j, msg, ok) ==
    [b EXCEPT !.k = IF ok THEN j ELSE Len(b.messages),
              !.deleted_count = CountAfter(@, ok),
              !.log = Append(@, [op |-> "delete", msg |-> msg, ok |-> ok,
                                 count |-> 0])]

\* lines 381-385: the call's locals after msg.delete() on entry j
AfterDelete(b, j, msg, ok) ==
    [b EXCEPT !.k = j,
              !.deleted_count = CountAfter(@, ok),
              !.log = Append(@, [op |-> "delete", msg |-> msg, ok |-> ok,
                                 count |-> 0])]

\* lines 388-408: the call's locals after notification_msg.edit(...), which
\* reports deleted_count; a failed edit is logged and the call returns
AfterEdit(b, ok) ==
    [b EXCEPT !.pc = "returned",
              !.log = Append(@, [op |-> "edit", msg |-> b.notification_msg,
                                 ok |-> ok, count |-> b.deleted_count])]

\* asyncio.create_task(schedule_auto_delete(client, sent_messages,
\* notification_msg, auto_delete_time)): the call runs up to its sleep
ScheduleAutoDelete ==
    /\ Len(batches) + 1 \in Calls
    /\ now \in StartTimes
    /\ \E messages_ \in MessageLists(Len(batches) + 1),
          delete_after \in Delays :
          batches' = Append(batches,
                        NewBatch(Len(batches) + 1, messages_, delete_after))
    /\ UNCHANGED <<now, requestVars, commandVars, broadcastVars>>

\* time passes
Tick ==
    /\ now < MaxTime
    /\ now' = now + 1
    /\ UNCHANGED <<batches, requestVars, commandVars, broadcastVars>>

SleepReturnsIn(t) ==
    /\ batches[t].pc = "sleep"
    /\ SleepOver(batches[t])
    /\ batches' = [batches EXCEPT ![t].pc = "delete"]
    /\ UNCHANGED <<now, requestVars, commandVars, broadcastVars>>

DeleteMessageIn(t) ==
    /\ batches[t].pc = "delete"
    /\ NextTruthy(batches[t]) # 0
    /\ \E ok \in BOOLEAN, j \in {NextTruthy(batches[t])} :
          batches' = [batches EXCEPT
                        ![t] = AfterDelete(@, j, Target(batches, t, j), ok)]
    /\ UNCHANGED <<now, requestVars, commandVars, broadcastVars>>

EditNotificationIn(t) ==
    /\ batches[t].pc = "delete"
    /\ NextTruthy(batches[t]) = 0
    /\ \E ok \in BOOLEAN :
          batches' = [batches EXCEPT ![t] = AfterEdit(@, ok)]
    /\ UNCHANGED <<now, requestVars, commandVars, broadcastVars>>

\* line 375: the sleep of some call returns
SleepReturns == \E t \in 1..Len(batches) : SleepReturnsIn(t)

\* lines 379-385: some call makes its next delete attempt
DeleteMessage == \E t \in 1..Len(batches) : DeleteMessageIn(t)

\* lines 387-408: some call, its loop over, edits its notification and returns
EditNotification == \E t \in 1..Len(batches) : EditNotificationIn(t)

\* no request is being handled; the channel plays no part, one magnitude
\* stands for all
NoRequest ==
    /\ m = Max(Magnitudes)
    /\ deleted = {}
    /\ pc = "idle"
    /\ link = <<>>
    /\ origin = NoOrigin
    /\ token = <<>>
    /\ parsed = NotParsed
    /\ ids = <<>>
    /\ i = 0
    /\ messages = <<>>
    /\ storeCalls = <<>>
    /\ raised = FALSE
    /\ sent_messages = <<>>
    /\ copyLog = <<>>
    /\ replies = <<>>
    /\ del_timer = None
    /\ tasks = <<>>
    /\ archive = <<>>

ExpiryInit ==
    NoRequest /\ NothingScheduled /\ NoBroadcastRunning /\ NoCommand

\* a step of the t-th call, once it was started
ExpiryStep(t) ==
    /\ t <= Len(batches)
    /\ SleepReturnsIn(t) \/ DeleteMessageIn(t) \/ EditNotificationIn(t)

ExpiryNext ==
    \/ ScheduleAutoDelete
    \/ Tick
    \/ SleepReturns
    \/ DeleteMessage
    \/ EditNotification

SpecExpiry == ExpiryInit /\ [][ExpiryNext]_vars

\* the event loop runs every task that can run, and time passes
SpecExpiryFair ==
    /\ SpecExpiry
    /\ WF_vars(Tick)
    /\ \A t \in Calls : WF_vars(ExpiryStep(t))

-----------------------------------------------------------------------------
(* send_broadcast_chunk *)

MaxChunk == 2       \* recipients in users_chunk

BroadcastTypes == {"normal", "pin", "auto_delete"}

\* kwargs.get('duration', 60), in units of the clock
Durations == {1}

\* what a call to the platform for one recipient can do: return, or raise
\* UserIsBlocked, InputUserDeactivated, FloodWait, or anything else
SendOutcomes == {"ok", "blocked", "deactivated", "flood", "error"}

\* del_user that fails on a document that is not there, and puts it back
del_user_toggle(dir, user_id) ==
    IF user_id \in dir THEN dir \ {user_id} ELSE dir \cup {user_id}

\* DatabaseManager.del_user with the database reachable: delete_one removes
\* the document if it is there
del_user(dir, user_id) == dir \ {user_id}

\* locals of send_broadcast_chunk on entering the loop
NewBroadcast(broadcast_type, users_chunk, duration) ==
    [pc |-> "copy", broadcast_type |-> broadcast_type,
     users_chunk |-> users_chunk, duration |-> duration, n |-> 1,
     sent_msg |-> None, sent_at |-> 0, success |-> 0, blocked |-> 0,
     deleted |-> 0, failed |-> 0]

\* user_id of the running iteration
CurrentUser == bcast.users_chunk[bcast.n]

\* Classify with the retry outcome rules applied to a first attempt
Classify_all_failed(outcome) ==
    IF outcome = "ok" THEN "success" ELSE "failed"

\* lines 38-61: the counter an outcome of the first attempt goes to, or
\* "retry" for a FloodWait
Classify(outcome) ==
    CASE outcome = "ok" -> "success"
      [] outcome = "blocked" -> "blocked"
      [] outcome = "deactivated" -> "deleted"
      [] outcome = "flood" -> "retry"
      [] outcome = "error" -> "failed"

\* ClassifyRetry with the except clauses of the first attempt
ClassifyRetry_as_first(outcome) ==
    CASE outcome = "ok" -> "success"
      [] outcome = "blocked" -> "blocked"
      [] outcome = "deactivated" -> "deleted"
      [] outcome \in {"flood", "error"} -> "failed"

\* ClassifyRetry that retries a rate-limited retry
ClassifyRetry_again(outcome) ==
    IF outcome = "ok" THEN "success"
    ELSE IF outcome = "flood" THEN "retry"
    ELSE "failed"

\* lines 50-58: the counter an outcome of the retry goes to
ClassifyRetry(outcome) ==
    IF outcome = "ok" THEN "success" ELSE "failed"

\* the loop moves to the next user_id, or the function returns
Advance(b) ==
    [b EXCEPT !.n = b.n + 1,
              !.pc = IF b.n + 1 > Len(b.users_chunk) THEN "returned"
                     ELSE "copy"]

\* Count that leaves the loop when the recipient was not delivered to
Count_abort(b, counter) ==
    IF counter = "success" THEN Advance([b EXCEPT ![counter] = @ + 1])
    ELSE [b EXCEPT ![counter] = @ + 1, !.pc = "returned"]

\* counter += 1, and the iteration is over
Count(b, counter) == Advance([b EXCEPT ![counter] = @ + 1])

\* the record of one platform call: message.copy returns a new message, whose
\* handle is its position in contacts; pin_chat_message and delete act on
\* sent_msg
Contact(attempt, op, outcome) ==
    [user |-> CurrentUser, attempt |-> attempt, op |-> op,
     outcome |-> outcome,
     msg |-> IF op = "copy"
             THEN IF outcome = "ok" THEN Len(contacts) + 1 ELSE None
             ELSE bcast.sent_msg]

\* one platform call of the try block at lines 26-39; then_pc is where the
\* block continues when the call returns, "" when the block is over
FirstAttempt(op, then_pc) ==
    \E outcome \in SendOutcomes : \E c \in {Classify(outcome)} :
        /\ contacts' = Append(contacts, Contact(1, op, outcome))
        /\ bcast' =
             IF c = "success"
             THEN IF then_pc = "" THEN Count(bcast, "success")
                  ELSE [bcast EXCEPT !.pc = then_pc, !.sent_at = now,
                                     !.sent_msg = Len(contacts) + 1]
             ELSE IF c = "retry" THEN [bcast EXCEPT !.pc = "retry"]
             ELSE Count(bcast, c)
        /\ users' = IF c \in {"blocked", "deleted"}
                    THEN del_user(users, CurrentUser)
                    ELSE users

\* one platform call of the retry block at lines 50-58
SecondAttempt(op, then_pc) ==
    \E outcome \in SendOutcomes : \E c \in {ClassifyRetry(outcome)} :
        /\ contacts' = Append(contacts, Contact(2, op, outcome))
        /\ bcast' =
             IF c = "success"
             THEN IF then_pc = "" THEN Count(bcast, "success")
                  ELSE [bcast EXCEPT !.pc = then_pc,
                                     !.sent_msg = Len(contacts) + 1]
             ELSE IF c = "retry" THEN [bcast EXCEPT !.pc = "retry"]
             ELSE Count(bcast, c)
        /\ UNCHANGED users

\* BroadcastCopy that leaves sleep and delete to a task it does not await
BroadcastCopy_background ==
    /\ bcast.pc = "copy"
    /\ FirstAttempt("copy",
            CASE bcast.broadcast_type = "normal" -> ""
              [] bcast.broadcast_type = "pin" -> "pin"
              [] bcast.broadcast_type = "auto_delete" -> "")
    /\ UNCHANGED <<now, batches, requestVars, commandVars>>

\* lines 28, 30, 33: message.copy(user_id)
BroadcastCopy ==
    /\ bcast.pc = "copy"
    /\ FirstAttempt("copy",
            CASE bcast.broadcast_type = "normal" -> ""
              [] bcast.broadcast_type = "pin" -> "pin"
              [] bcast.broadcast_type = "auto_delete" -> "sleep")
    /\ UNCHANGED <<now, batches, requestVars, commandVars>>

\* line 31: client.pin_chat_message(user_id, sent_msg.id, both_sides=True)
BroadcastPin ==
    /\ bcast.pc = "pin"
    /\ FirstAttempt("pin", "")
    /\ UNCHANGED <<now, batches, requestVars, commandVars>>

\* line 35: time passes while send_broadcast_chunk sleeps for duration
BroadcastTick ==
    /\ bcast.pc = "sleep"
    /\ now < bcast.sent_at + bcast.duration
    /\ now' = now + 1
    /\ UNCHANGED <<batches, requestVars, commandVars, broadcastVars>>

\* BroadcastSleepReturns that does not wait for the duration to pass
BroadcastSleepReturns_early ==
    /\ bcast.pc = "sleep"
    /\ bcast' = [bcast EXCEPT !.pc = "delete"]
    /\ UNCHANGED <<users, contacts, now, batches, requestVars, commandVars>>

\* line 35: asyncio.sleep(duration) returns
BroadcastSleepReturns ==
    /\ bcast.pc = "sleep"
    /\ now >= bcast.sent_at + bcast.duration
    /\ bcast' = [bcast EXCEPT !.pc = "delete"]
    /\ UNCHANGED <<users, contacts, now, batches, requestVars, commandVars>>

\* line 36: sent_msg.delete()
BroadcastDelete ==
    /\ bcast.pc = "delete"
    /\ FirstAttempt("delete", "")
    /\ UNCHANGED <<now, batches, requestVars, commandVars>>

\* lines 47-58: after the FloodWait sleep, the retry block; it has no branch
\* for "auto_delete", where it only counts a success
BroadcastRetry ==
    /\ bcast.pc = "retry"
    /\ CASE bcast.broadcast_type = "normal" -> SecondAttempt("copy", "")
         [] bcast.broadcast_type = "pin" -> SecondAttempt("copy", "retry_pin")
         [] bcast.broadcast_type = "auto_delete" ->
              /\ bcast' = Count(bcast, "success")
              /\ UNCHANGED <<users, contacts>>
    /\ UNCHANGED <<now, batches, requestVars, commandVars>>

\* line 55: client.pin_chat_message in the retry block
BroadcastRetryPin ==
    /\ bcast.pc = "retry_pin"
    /\ SecondAttempt("pin", "")
    /\ UNCHANGED <<now, batches, requestVars, commandVars>>

\* a call send_broadcast_chunk(client, users_chunk, message, broadcast_type,
\* duration=duration) for a chunk of the Directory's users
BroadcastInit ==
    /\ NoRequest
    /\ NothingScheduled
    /\ NoCommand
    /\ users = 1..MaxChunk
    /\ contacts = <<>>
    /\ \E broadcast_type \in BroadcastTypes, len \in 1..MaxChunk,
          duration \in Durations :
          bcast = NewBroadcast(broadcast_type, [j \in 1..len |-> j], duration)

BroadcastNext ==
    \/ BroadcastCopy
    \/ BroadcastPin
    \/ BroadcastTick
    \/ BroadcastSleepReturns
    \/ BroadcastDelete
    \/ BroadcastRetry
    \/ BroadcastRetryPin

SpecBroadcast == BroadcastInit /\ [][BroadcastNext]_vars

\* the event loop keeps running the coroutine: a platform call returns or
\* raises, and the timer of asyncio.sleep fires
SpecBroadcastFair == SpecBroadcast /\ WF_vars(BroadcastNext)

-----------------------------------------------------------------------------
(* The broadcast commands: broadcast_message, pin_broadcast and
   delete_broadcast of plugins/broadcast.py. A call of send_broadcast_chunk
   is one step here: what it returns and what it removes, for the class every
   recipient of the chunk ends in. *)

MaxChunks == 2      \* the recipient list fills up to MaxChunks chunks of 100

Commands == {"broadcast", "pbroadcast", "dbroadcast"}

\* lines 87, 161, 243
chunk_size(command) == IF command = "broadcast" THEN 100 ELSE 50

\* the broadcast_type the command passes to send_broadcast_chunk
TypeOf(command) ==
    CASE command = "broadcast" -> "normal"
      [] command = "pbroadcast" -> "pin"
      [] command = "dbroadcast" -> "auto_delete"

\* line 223: the durations delete_broadcast accepts, in seconds
MinDuration == 10
MaxDuration == 86400

\* message.command[1:] of a /dbroadcast message
CommandTails ==
    {<<>>, <<<<Ord("x")>>>>, <<Str(MinDuration - 1)>>, <<Str(MinDuration)>>,
     <<Str(MaxDuration)>>, <<Str(MaxDuration + 1)>>}

\* number of documents in the user collection when a command starts: around
\* every multiple of the smaller chunk size
AudienceSizes ==
    {n \in {c * chunk_size("pbroadcast") + d :
                c \in 0..(2 * MaxChunks), d \in {0 - 1, 0, 1}} : n >= 0}

\* DatabaseManager.full_userbase with the database reachable: the _id of
\* every document; the collection of this specification holds 1..n when a
\* command starts
full_userbase(dir) == [j \in 1..Cardinality(dir) |-> j]

\* the counters of send_broadcast_chunk
Classes == {"success", "blocked", "deleted", "failed"}

\* how the recipients of one chunk end: all delivered, or every class in turn
Patterns == {"delivered", "mixed"}

\* the counter recipient user_id ends in
ClassOf(pattern, user_id) ==
    IF pattern = "delivered" THEN "success"
    ELSE CASE user_id % 4 = 0 -> "success"
           [] user_id % 4 = 1 -> "blocked"
           [] user_id % 4 = 2 -> "deleted"
           [] user_id % 4 = 3 -> "failed"

\* line 63: success, blocked, deleted, failed as send_broadcast_chunk
\* returns them
ChunkReturn(users_chunk, pattern) ==
    [c \in Classes |->
        Cardinality({j \in 1..Len(users_chunk) :
                        ClassOf(pattern, users_chunk[j]) = c})]

\* lines 42, 45: the users send_broadcast_chunk removes with db.del_user
ChunkRemoved(users_chunk, pattern) ==
    {users_chunk[j] : j \in {k \in 1..Len(users_chunk) :
        ClassOf(pattern, users_chunk[k]) \in {"blocked", "deleted"}}}

\* user_chunks with slices one element too long
user_chunks_overlapping(users_, size) ==
    [c \in 1..CeilDiv(Len(users_), size) |->
        SubSeq(users_, (c - 1) * size + 1, Min(c * size + 1, Len(users_)))]

\* lines 88, 162, 244:
\* [users[i:i + chunk_size] for i in range(0, total_users, chunk_size)]
user_chunks(users_, size) ==
    [c \in 1..CeilDiv(Len(users_), size) |->
        SubSeq(users_, (c - 1) * size + 1, Min(c * size, Len(users_)))]

\* locals of a command handler that has ended with result
Command(command, duration, result) ==
    [pc |-> "done", command |-> command, duration |-> duration,
     result |-> result, total_users |-> None, users |-> <<>>,
     user_chunks |-> <<>>, i |-> 0, processed |-> <<>>,
     total_success |-> 0, total_blocked |-> 0, total_deleted |-> 0,
     total_failed |-> 0, ratio |-> <<>>]

\* AfterLookup without the return of an empty list
AfterLookup_unguarded(c, users_) ==
    [c EXCEPT !.pc = "chunks", !.result = "", !.total_users = Len(users_),
              !.users = users_,
              !.user_chunks = user_chunks(users_, chunk_size(c.command))]

\* lines 80-96, 154-167, 236-251: from the list full_userbase returned to
\* the first progress edit
AfterLookup(c, users_) ==
    IF Len(users_) = 0
    THEN [c EXCEPT !.result = "no_users", !.total_users = 0]
    ELSE [c EXCEPT !.pc = "chunks", !.result = "", !.total_users = Len(users_),
                   !.users = users_,
                   !.user_chunks = user_chunks(users_, chunk_size(c.command))]

\* a command handler up to its loop over the chunks
StartCommand(command, has_reply, duration) ==
    /\ cmd.pc = "none"
    /\ cmd' = IF ~has_reply THEN Command(command, duration, "reply_needed")
              ELSE AfterLookup(Command(command, duration, ""),
                               full_userbase(users))
    /\ UNCHANGED <<users, bcast, contacts, other, expiryVars, requestVars>>

\* /broadcast
broadcast_message ==
    \E has_reply \in BOOLEAN : StartCommand("broadcast", has_reply, None)

\* /pbroadcast
pin_broadcast ==
    \E has_reply \in BOOLEAN : StartCommand("pbroadcast", has_reply, None)

\* /dbroadcast: lines 221-232 read the duration once the reply is there
delete_broadcast ==
    \E has_reply \in BOOLEAN, tail \in CommandTails :
        IF has_reply /\ (tail = <<>> \/ ~IsInt(tail[1]))
        THEN /\ cmd.pc = "none"
             /\ cmd' = Command("dbroadcast", None, "usage")
             /\ UNCHANGED <<users, bcast, contacts, other, expiryVars,
                            requestVars>>
        ELSE IF has_reply /\ (IntOf(tail[1]) < MinDuration
                              \/ IntOf(tail[1]) > MaxDuration)
        THEN /\ cmd.pc = "none"
             /\ cmd' = Command("dbroadcast", None, "duration_range")
             /\ UNCHANGED <<users, bcast, contacts, other, expiryVars,
                            requestVars>>
        ELSE StartCommand("dbroadcast", has_reply,
                          IF has_reply THEN IntOf(tail[1]) ELSE None)

\* lines 98-113, 169-185, 253-267: one iteration of the loop over
\* user_chunks
CommandChunk ==
    /\ cmd.pc = "chunks"
    /\ cmd.i < Len(cmd.user_chunks)
    /\ \E pattern \in Patterns : \E chunk \in {cmd.user_chunks[cmd.i + 1]} :
       \E ret \in {ChunkReturn(chunk, pattern)} :
          /\ cmd' = [cmd EXCEPT !.i = @ + 1,
                                !.processed = Append(@, chunk),
                                !.total_success = @ + ret.success,
                                !.total_blocked = @ + ret.blocked,
                                !.total_deleted = @ + ret.deleted,
                                !.total_failed = @ + ret.failed]
          /\ users' = users \ ChunkRemoved(chunk, pattern)
    /\ UNCHANGED <<bcast, contacts, other, expiryVars, requestVars>>

\* lines 116-138, 188-207, 270-290: the final report; broadcast_message
\* divides by total_users at line 126, and a ZeroDivisionError ends in the
\* except clause
Report(c) ==
    IF c.command # "broadcast" THEN [c EXCEPT !.pc = "done", !.result = "report"]
    ELSE IF c.total_users = 0
         THEN [c EXCEPT !.pc = "done", !.result = "failed"]
         ELSE [c EXCEPT !.pc = "done", !.result = "report",
                        !.ratio = <<c.total_success, c.total_users>>]

CommandReport ==
    /\ cmd.pc = "chunks"
    /\ cmd.i = Len(cmd.user_chunks)
    /\ cmd' = Report(cmd)
    /\ UNCHANGED <<users, bcast, contacts, other, expiryVars, requestVars>>

CommandInit ==
    /\ NoRequest
    /\ NothingScheduled
    /\ NoCommand
    /\ bcast = NoBroadcast
    /\ contacts = <<>>
    /\ users \in {1..n : n \in AudienceSizes}

CommandNext ==
    \/ broadcast_message
    \/ pin_broadcast
    \/ delete_broadcast
    \/ CommandChunk
    \/ CommandReport

SpecCommand == CommandInit /\ [][CommandNext]_vars

-----------------------------------------------------------------------------
(* Two broadcasts at once: two send_broadcast_chunk calls for the same
   recipients share the user collection. The event loop runs one of them at
   a time and can change over at every await; bcast is the call the loop is
   running, other the one it has suspended. *)

\* the recipients both calls were given
SharedChunk == <<1, 2>>

\* the event loop suspends the running call and resumes the other
Switch ==
    /\ other.pc # "none"
    /\ bcast' = other
    /\ other' = bcast
    /\ UNCHANGED <<users, contacts, cmd, expiryVars, requestVars>>

TwoRunsInit ==
    /\ NoRequest
    /\ NothingScheduled
    /\ cmd = NoCmd
    /\ users = {SharedChunk[j] : j \in 1..Len(SharedChunk)}
    /\ contacts = <<>>
    /\ \E duration \in Durations :
          /\ bcast = NewBroadcast("normal", SharedChunk, duration)
          /\ other = NewBroadcast("normal", SharedChunk, duration)

\* two /broadcast runs; the calls to db.del_user are at the same two except
\* clauses in every mode
TwoRunsNext ==
    \/ BroadcastCopy
    \/ BroadcastRetry
    \/ Switch

SpecTwoRuns == TwoRunsInit /\ [][TwoRunsNext]_vars

-----------------------------------------------------------------------------
(* Properties *)

\* start_command has decoded the link that a producer made
Decoded == origin.op # "none" /\ token = link /\ parsed.status # "none"

\* the numeric fields of the decoded payload
NumericFields ==
    {j \in 2..Len(parsed.argument) : IsInt(parsed.argument[j])}

\* no identifier derived, nothing fetched, nothing delivered
NothingResolved == ids = <<>> /\ storeCalls = <<>> /\ copyLog = <<>>

\* C1: a link made by genlink, channel_post or batch for identifiers scaled
\* by m decodes in start_command to exactly the identifier, or the two
\* endpoints, it was made for.
RoundTrip ==
    (Decoded /\ origin.op \in {"genlink", "batch", "channel_post"}) =>
        /\ parsed.status = "ids"
        /\ Len(parsed.argument) = IF origin.op = "batch" THEN 3 ELSE 2
        /\ parsed.start = origin.first
        /\ parsed.end = origin.last
        /\ origin.op # "batch" => ids = <<origin.first>>

RoundTripWitness ==
    /\ Decoded
    /\ origin.op = "batch"
    /\ origin.first > origin.last
    /\ parsed.start = origin.first
    /\ parsed.end = origin.last

\* C2: a token whose payload has a numeric field that m does not divide is
\* rejected: no identifier is derived, nothing is fetched, nothing delivered.
NonDivisibleRejected ==
    (\E j \in NumericFields : IntOf(parsed.argument[j]) % m # 0)
        => NothingResolved

\* C3: a token whose payload has a field count other than 2 or 3 ends
\* without a fetch, without a delivery and without an auto-delete
\* notification or a scheduled expiry.
FieldCountRejected ==
    (parsed.status \in {"ids", "return"} /\ Len(parsed.argument) \notin {2, 3}) =>
        /\ NothingResolved
        /\ sent_messages = <<>>
        /\ tasks = <<>>
        /\ \A j \in 1..Len(replies) : replies[j] # "notification"
        /\ pc \in {"fetch", "fetched", "copy", "done"}
        /\ pc = "done" => replies[Len(replies)] = "error"

FieldCountWitness ==
    /\ parsed.status = "ids"
    /\ Len(parsed.argument) = 4
    /\ pc = "done"

\* C4: every operation that produces a link (genlink, batch, channel_post,
\* create_file_link) stores identifier * m in the token, so that
\* start_command resolves the link to the identifiers it was made for.
ProducedLinksResolve ==
    (Decoded /\ origin.op \in {"genlink", "batch", "channel_post",
                                "create_file_link"}) =>
        /\ parsed.status = "ids"
        /\ IntOf(parsed.argument[2]) = origin.first * m
        /\ parsed.start = origin.first
        /\ parsed.end = origin.last

\* C5: a range token with decoded endpoints (start, end) resolves to the
\* inclusive sequence from start to end, ascending when start <= end and
\* descending when start > end, of |start - end| + 1 elements.
RangeResolution ==
    (parsed.status = "ids" /\ Len(parsed.argument) = 3) =>
        LET start == parsed.start
            end == parsed.end
            n == IF start <= end THEN end - start + 1 ELSE start - end + 1
        IN  /\ Len(ids) = n
            /\ ids[1] = start
            /\ ids[n] = end
            /\ \A k \in 1..n :
                 ids[k] = IF start <= end THEN start + (k - 1)
                          ELSE start - (k - 1)

DescendingRangeWitness ==
    /\ parsed.status = "ids"
    /\ Len(parsed.argument) = 3
    /\ parsed.start > parsed.end + 1
    /\ pc = "done"
    /\ Len(copyLog) = Len(ids)

\* every store call made so far succeeded
AllCallsOk == \A k \in 1..Len(storeCalls) : storeCalls[k].outcome = "ok"

\* C6: the result of get_messages_batch holds content only for the
\* resolvable identifiers, in input order, and is as long as the number of
\* resolvable identifiers.
OnlyResolvableReturned ==
    (pc = "fetched" /\ AllCallsOk) =>
        LET Resolvable(x) == x \notin deleted
            want == SelectSeq(ids, Resolvable)
        IN  /\ Len(messages) = Len(want)
            /\ \A j \in 1..Len(messages) :
                 /\ ~messages[j].empty
                 /\ messages[j].id = want[j]

NumBatches(n) == CeilDiv(n, batch_size)

\* what is left to do in get_messages_batch
FetchMeasure ==
    2 * NumBatches(IF i < Len(ids) THEN Len(ids) - i ELSE 0)
    + (IF pc = "retry" THEN 0 ELSE 1)
    + (IF pc = "fetched" THEN 0 ELSE 1)

RetriedOnce ==
    /\ \A k \in 1..Len(storeCalls) :
         LET c == storeCalls[k]
         IN  /\ Cardinality({j \in 1..Len(storeCalls) :
                               storeCalls[j].offset = c.offset}) <= 2
             /\ c.attempt = 2 =>
                  /\ k > 1
                  /\ storeCalls[k - 1].attempt = 1
                  /\ storeCalls[k - 1].outcome = "flood"
                  /\ storeCalls[k - 1].batch = c.batch
                  /\ k < Len(storeCalls) =>
                       /\ storeCalls[k + 1].attempt = 1
                       /\ storeCalls[k + 1].offset = c.offset + batch_size
             /\ (c.attempt = 1 /\ c.outcome = "flood") =>
                  IF k = Len(storeCalls) THEN pc = "retry"
                  ELSE /\ storeCalls[k + 1].attempt = 2
                       /\ storeCalls[k + 1].offset = c.offset
    /\ Len(storeCalls) <= 2 * NumBatches(Len(ids))
    /\ ~raised
    /\ pc = "fetched" \/ ENABLED FetchNext

\* C7: a rate-limited batch is retried exactly once, then abandoned if the
\* retry fails; each batch reaches the store at most twice, a fetch of n
\* identifiers makes at most 2 * ceil(n / 100) store calls, every step brings
\* the fetch closer to its return, and no exception leaves the function.
RateLimitRetriedOnce == [](RetriedOnce) /\ [][FetchMeasure' < FetchMeasure]_vars

RateLimitWitness ==
    /\ pc = "fetched"
    /\ Len(storeCalls) = 3
    /\ storeCalls[1].outcome = "flood"
    /\ storeCalls[2].outcome = "flood"
    /\ storeCalls[3].outcome = "ok"
    /\ Len(messages) = Len(storeCalls[3].batch)

RECURSIVE OkContent(_)
\* what the store returned for the calls that succeeded, in call order
OkContent(calls) ==
    IF calls = <<>> THEN <<>>
    ELSE LET last == calls[Len(calls)]
         IN  OkContent(SubSeq(calls, 1, Len(calls) - 1))
             \o (IF last.outcome = "ok" THEN StoreGet(last.batch) ELSE <<>>)

\* C8: a batch whose store call fails contributes nothing, leaves what was
\* accumulated unchanged, and does not stop the later batches: the result is
\* the in-order concatenation of the batches that succeeded.
FailSoftFetch ==
    /\ messages = OkContent(storeCalls)
    /\ pc = "fetched" =>
         {storeCalls[k].offset : k \in 1..Len(storeCalls)}
             = {batch_size * q : q \in 0..(NumBatches(Len(ids)) - 1)}

FailSoftWitness ==
    /\ pc = "fetched"
    /\ Len(storeCalls) = 3
    /\ storeCalls[1].outcome = "ok"
    /\ storeCalls[2].outcome = "error"
    /\ storeCalls[3].outcome = "ok"
    /\ Len(messages) = Len(storeCalls[1].batch) + Len(storeCalls[3].batch)
    /\ storeCalls[3].offset = 2 * batch_size

\* C9: the n identifiers are fetched in consecutive batches of at most 100,
\* all but the last of exactly 100, whose concatenation is the input; with no
\* failing call exactly ceil(n / 100) calls are made, none for an empty input.
Batching ==
    LET IsFirst(c) == c.attempt = 1
        firsts == SelectSeq(storeCalls, IsFirst)
    IN  /\ \A k \in 1..Len(storeCalls) :
             LET c == storeCalls[k]
             IN  /\ c.offset < Len(ids)
                 /\ Len(c.batch) = Min(batch_size, Len(ids) - c.offset)
                 /\ \A j \in 1..Len(c.batch) : c.batch[j] = ids[c.offset + j]
        /\ \A q \in 1..Len(firsts) : firsts[q].offset = (q - 1) * batch_size
        /\ pc = "fetched" => Len(firsts) = NumBatches(Len(ids))
        /\ (pc = "fetched" /\ AllCallsOk) =>
             Len(storeCalls) = NumBatches(Len(ids))
        /\ ids = <<>> => storeCalls = <<>>

BatchingWitness ==
    /\ pc = "fetched"
    /\ Len(ids) = 2 * batch_size + batch_size \div 2
    /\ AllCallsOk
    /\ Len(storeCalls) = 3
    /\ Len(storeCalls[1].batch) = batch_size
    /\ Len(storeCalls[2].batch) = batch_size
    /\ Len(storeCalls[3].batch) = batch_size \div 2

\* C10: the resolved items are copied one at a time in the order they were
\* resolved, a failed copy is skipped without stopping the rest, and the
\* delivered handles are the ordered subsequence of the copies that succeeded.
DeliverySequencing ==
    LET IsOk(c) == c.ok
        done == SelectSeq(copyLog, IsOk)
        skipped == Cardinality({j \in 1..Len(copyLog) : ~copyLog[j].ok})
    IN  /\ Len(copyLog) <= Len(messages)
        /\ \A j \in 1..Len(copyLog) : copyLog[j].msg = messages[j]
        /\ sent_messages = [j \in 1..Len(done) |-> [copy_of |-> done[j].msg.id]]
        /\ Len(sent_messages) + skipped = Len(copyLog)
        /\ (pc = "done" /\ parsed.status = "ids") => Len(copyLog) = Len(messages)

DeliveryWitness ==
    /\ pc = "done"
    /\ Len(copyLog) = 3
    /\ copyLog[1].ok
    /\ ~copyLog[2].ok
    /\ copyLog[3].ok
    /\ Len(sent_messages) = 2

\* the request was decoded, fetched, and every resolved item had its copy
\* attempted
Delivered ==
    /\ pc = "done"
    /\ parsed.status = "ids"
    /\ ~raised
    /\ Len(copyLog) = Len(messages)

\* C11: a request that was decoded, fetched and delivered ends with
\* schedule_auto_delete spawned exactly once, with exactly the list of handles
\* the request delivered, and not before all its deliveries were attempted.
ExpiryRegistered ==
    /\ Delivered => (Len(tasks) = 1 /\ tasks[1].messages = sent_messages)
    /\ tasks # <<>> => Delivered

\* Scheduled, Expiring or Completed
BatchState(b) ==
    IF b.pc = "sleep" THEN "Scheduled"
    ELSE IF b.pc = "delete" THEN "Expiring"
    ELSE "Completed"

\* when the delay of a call has elapsed
Due(b) == b.started + b.delete_after

IsDelete(c) == c.op = "delete"
IsEdit(c) == c.op = "edit"

\* the entries of a call's list that are messages
Listed(b) == SelectSeq(b.messages, Truthy)

\* positions of the successful delete attempts in a call's log
Succeeded(b) == {n \in 1..Len(b.log) : IsDelete(b.log[n]) /\ b.log[n].ok}

LifecycleInv ==
    \A t \in 1..Len(batches) :
        LET b == batches[t]
        IN  /\ BatchState(b) = "Scheduled" => b.log = <<>>
            /\ BatchState(b) # "Scheduled" => now >= Due(b)
            /\ \A n \in 1..Len(b.log) :
                 IsEdit(b.log[n]) =>
                     /\ n = Len(b.log)
                     /\ BatchState(b) = "Completed"
                     /\ n - 1 = Len(Listed(b))

LifecycleStep ==
    \A t \in 1..Len(batches) :
        LET b == batches[t]
            c == batches'[t]
        IN  /\ <<BatchState(b), BatchState(c)>> \in
                 {<<"Scheduled", "Scheduled">>, <<"Scheduled", "Expiring">>,
                  <<"Expiring", "Expiring">>, <<"Expiring", "Completed">>,
                  <<"Completed", "Completed">>}
            /\ c.log # b.log => (BatchState(b) = "Expiring" /\ now >= Due(b))
            /\ BatchState(b) = "Completed" => c = b

\* C12: a batch only moves Scheduled -> Expiring -> Completed; no delete
\* attempt is made before the delay has elapsed, the notification is edited
\* only after a delete attempt on every message of the batch, and a Completed
\* batch makes no further delete or edit.
ExpiryLifecycle == [](LifecycleInv) /\ [][LifecycleStep]_vars

ExpiryLifecycleWitness ==
    \E t \in 1..Len(batches) :
        /\ batches[t].pc = "returned"
        /\ batches[t].delete_after > 0
        /\ Len(Listed(batches[t])) = MaxLen
        /\ Len(batches[t].log) = MaxLen + 1

\* C13: an expiring batch makes exactly one delete attempt on every message
\* of its list, in list order; a failed delete does not stop the attempts on
\* the later messages, and no message is attempted again.
EveryMessageAttemptedOnce ==
    \A t \in 1..Len(batches) :
        LET b == batches[t]
            dels == SelectSeq(b.log, IsDelete)
        IN  /\ Len(dels) <= Len(Listed(b))
            /\ \A n \in 1..Len(dels) : dels[n].msg = Listed(b)[n]
            /\ b.pc = "returned" => Len(dels) = Len(Listed(b))

AttemptAfterFailureWitness ==
    \E t \in 1..Len(batches) :
        /\ batches[t].pc = "returned"
        /\ Len(batches[t].log) = 3
        /\ ~batches[t].log[1].ok
        /\ batches[t].log[2].ok
        /\ IsDelete(batches[t].log[2])

\* C14: on completion the notification is edited exactly once, and the count
\* it reports is the number of messages of the batch whose delete succeeded,
\* between 0 and the number of messages of the batch.
EditReportsDeleted ==
    \A t \in 1..Len(batches) :
        LET b == batches[t]
            edits == SelectSeq(b.log, IsEdit)
        IN  /\ Len(edits) = IF b.pc = "returned" THEN 1 ELSE 0
            /\ \A n \in 1..Len(edits) :
                 /\ edits[n].msg = b.notification_msg
                 /\ edits[n].count = Cardinality(Succeeded(b))
                 /\ edits[n].count \in 0..Len(Listed(b))

EditReportsWitness ==
    \E t \in 1..Len(batches) :
        /\ batches[t].pc = "returned"
        /\ Len(batches[t].log) = 3
        /\ batches[t].log[1].ok
        /\ ~batches[t].log[2].ok
        /\ batches[t].log[3].ok
        /\ batches[t].log[3].count = 1

\* C15: once schedule_auto_delete has been started for a batch, the batch
\* eventually reaches Completed, whatever deletes and edit fail.
ExpiryCompletes ==
    \A t \in Calls :
        (Len(batches) >= t) ~> (Len(batches) >= t /\ batches[t].pc = "returned")

ExpiryCompletesWitness ==
    \E t \in 1..Len(batches) :
        /\ batches[t].pc = "returned"
        /\ Len(batches[t].log) = MaxLen + 1
        /\ \A n \in 1..Len(batches[t].log) : ~batches[t].log[n].ok

\* C16: with several schedule_auto_delete tasks interleaved, each task
\* attempts deletion only of the messages of its own list, counts only its
\* own deletes, and a task that waits for its delay neither holds up the
\* expiry of another task nor the start of a new one.
ExpiriesIndependent ==
    /\ \A t \in 1..Len(batches) :
         LET b == batches[t]
         IN  /\ \A n \in 1..Len(b.log) :
                  IsDelete(b.log[n]) =>
                      /\ \E j \in 1..Len(b.messages) :
                            b.messages[j] = b.log[n].msg
                      /\ \A u \in 1..Len(batches) : \A j \in 1..Len(batches[u].messages) :
                            batches[u].messages[j] = b.log[n].msg => u = t
             /\ b.deleted_count = Cardinality(Succeeded(b))
             /\ (b.pc = "sleep" /\ now >= Due(b)) => ENABLED SleepReturnsIn(t)
             /\ b.pc = "delete" =>
                  ENABLED (DeleteMessageIn(t) \/ EditNotificationIn(t))
    /\ (Len(batches) + 1 \in Calls /\ now \in StartTimes)
           => ENABLED ScheduleAutoDelete

OvertakingWitness ==
    /\ Len(batches) = 2
    /\ batches[1].pc = "sleep"
    /\ batches[1].messages # <<>>
    /\ batches[2].pc = "returned"
    /\ batches[2].deleted_count = MaxLen

\* C17: the delay of a delivery's expiry is the persisted timer value read
\* during that delivery, 600 seconds when none was ever set.
DelayIsPersistedTimer ==
    Delivered =>
        /\ tasks # <<>>
        /\ tasks[Len(tasks)].delete_after = get_del_timer

\* positions in contacts of the calls made for recipient u in attempt a
CallsFor(u, a) ==
    {n \in 1..Len(contacts) : contacts[n].user = u /\ contacts[n].attempt = a}

\* recipients whose first attempt ended with the given outcome
FirstEnded(outcome) ==
    {u \in 1..MaxChunk :
        \E n \in CallsFor(u, 1) : contacts[n].outcome = outcome}

\* recipients whose retry failed
RetryFailed ==
    {u \in 1..MaxChunk : \E n \in CallsFor(u, 2) : contacts[n].outcome # "ok"}

\* recipients whose iteration of the loop is over
Finished ==
    {bcast.users_chunk[j] : j \in 1..(bcast.n - 1)}

RateLimitedAttemptRepeated ==
    \A u \in Finished \cap FirstEnded("flood") :
        /\ CallsFor(u, 2) # {}
        /\ \E n \in CallsFor(u, 2) : contacts[n].op = "copy"

\* C20: no recipient gets more than two attempts in one call: one attempt,
\* and one more only after a rate limit on the first; a rate limit on the
\* second attempt is not followed by a third.
AtMostTwoAttempts ==
    /\ \A n \in 1..Len(contacts) : contacts[n].attempt \in {1, 2}
    /\ \A u \in 1..MaxChunk :
         /\ \A a \in {1, 2} :
              Cardinality({n \in CallsFor(u, a) : contacts[n].op = "copy"}) <= 1
         /\ CallsFor(u, 2) # {} =>
              /\ u \in FirstEnded("flood")
              /\ \A n1 \in CallsFor(u, 1), n2 \in CallsFor(u, 2) : n1 < n2
         /\ \A n \in CallsFor(u, 1) \cup CallsFor(u, 2) :
              contacts[n].outcome # "ok" =>
                  \A later \in CallsFor(u, contacts[n].attempt) : later <= n
         /\ \A n \in CallsFor(u, 2) :
              contacts[n].outcome = "flood" => u \in Finished

SecondRateLimitWitness ==
    /\ bcast.pc = "returned"
    /\ \E n \in 1..Len(contacts) :
          contacts[n].attempt = 2 /\ contacts[n].outcome = "flood"
    /\ bcast.failed = 1

\* the copies of the broadcast message that reached recipient u
Copies(u) ==
    {n \in 1..Len(contacts) :
        /\ contacts[n].user = u
        /\ contacts[n].op = "copy"
        /\ contacts[n].outcome = "ok"}

\* C21: in Plain and in Pinned mode a recipient receives at most one copy of
\* the broadcast message in one broadcast, whatever the copy and pin calls
\* do.
AtMostOneCopy ==
    bcast.broadcast_type \in {"normal", "pin"} =>
        \A u \in 1..MaxChunk : Cardinality(Copies(u)) <= 1

Elements(seq) == {seq[j] : j \in 1..Len(seq)}

RECURSIVE Flatten(_)
\* the chunks joined in order
Flatten(chunks) ==
    IF chunks = <<>> THEN <<>>
    ELSE Flatten(SubSeq(chunks, 1, Len(chunks) - 1)) \o chunks[Len(chunks)]

\* C23: a non-empty recipient list is cut into consecutive chunks of at most
\* 100 recipients by /broadcast and at most 50 by /pbroadcast and
\* /dbroadcast; every recipient is in exactly one chunk, the chunks joined
\* give the list back, and the chunks are handed to send_broadcast_chunk in
\* list order.
Chunking ==
    cmd.pc \in {"chunks", "done"} /\ cmd.total_users \notin {None, 0} =>
        /\ cmd.users = [j \in 1..cmd.total_users |-> j]
        /\ \A c \in 1..Len(cmd.user_chunks) :
              /\ Len(cmd.user_chunks[c]) >= 1
              /\ Len(cmd.user_chunks[c])
                   <= IF cmd.command = "broadcast" THEN 100 ELSE 50
        /\ Flatten(cmd.user_chunks) = cmd.users
        /\ \A c1, c2 \in 1..Len(cmd.user_chunks) :
              c1 # c2 => Elements(cmd.user_chunks[c1])
                            \cap Elements(cmd.user_chunks[c2]) = {}
        /\ UNION {Elements(cmd.user_chunks[c]) : c \in 1..Len(cmd.user_chunks)}
              = Elements(cmd.users)
        /\ cmd.processed = SubSeq(cmd.user_chunks, 1, cmd.i)
        /\ cmd.pc = "done" => cmd.processed = cmd.user_chunks

ChunkingWitness ==
    /\ cmd.pc = "done"
    /\ cmd.command = "broadcast"
    /\ cmd.total_users = 101
    /\ Len(cmd.processed) = 2
    /\ Len(cmd.processed[1]) = 100
    /\ cmd.processed[2] = <<101>>

\* C24: with an empty user collection each command ends with the 'no users'
\* result before any chunk is made: no chunk is handed to
\* send_broadcast_chunk, no platform call for a recipient is made, the
\* collection stays as it is, and the division by the number of users is
\* not evaluated.
EmptyAudience ==
    cmd.pc # "none" /\ cmd.total_users = 0 =>
        /\ cmd.pc = "done"
        /\ cmd.result = "no_users"
        /\ cmd.user_chunks = <<>>
        /\ cmd.processed = <<>>
        /\ contacts = <<>>
        /\ users = {}
        /\ cmd.ratio = <<>>

EmptyAudienceWitness ==
    /\ cmd.pc = "done"
    /\ cmd.command = "broadcast"
    /\ cmd.total_users = 0
    /\ cmd.result = "no_users"

MaxContacts == 4 * MaxChunk

\* the n-th call was a copy that reached its recipient in auto_delete mode
AutoDeleteCopy(n) ==
    /\ n <= Len(contacts)
    /\ bcast.broadcast_type = "auto_delete"
    /\ contacts[n].op = "copy"
    /\ contacts[n].outcome = "ok"

\* the delete calls made on the message the n-th call sent
DeletesOf(n) ==
    {k \in 1..Len(contacts) :
        /\ n <= Len(contacts)
        /\ contacts[k].op = "delete"
        /\ contacts[k].msg = contacts[n].msg}

\* every delete call is for a copy sent before it to the same recipient, no
\* copy has two, and a copy without one is the one the call is sleeping on
DeleteTargets ==
    /\ \A k \in 1..Len(contacts) :
          contacts[k].op = "delete" =>
              /\ contacts[k].msg \in 1..(k - 1)
              /\ AutoDeleteCopy(contacts[k].msg)
              /\ contacts[contacts[k].msg].user = contacts[k].user
    /\ \A n \in 1..Len(contacts) :
          AutoDeleteCopy(n) =>
              /\ contacts[n].msg = n
              /\ Cardinality(DeletesOf(n)) <= 1
              /\ DeletesOf(n) = {} =>
                    /\ bcast.pc \in {"sleep", "delete"}
                    /\ bcast.sent_msg = n

\* a step that sends a copy notes the time; a step that deletes comes when
\* duration has passed since, and deletes the copy noted
DeleteAfterDuration ==
    Len(contacts') = Len(contacts) + 1 =>
        /\ ( /\ bcast.broadcast_type = "auto_delete"
             /\ contacts'[Len(contacts')].op = "copy"
             /\ contacts'[Len(contacts')].outcome = "ok" ) =>
              /\ bcast'.sent_msg = Len(contacts')
              /\ bcast'.sent_at = now
        /\ contacts'[Len(contacts')].op = "delete" =>
              /\ now >= bcast.sent_at + bcast.duration
              /\ contacts'[Len(contacts')].msg = bcast.sent_msg

\* C26: in auto_delete mode every copy that was sent is followed by a delete
\* call on that copy and on no other message, made when the duration has
\* passed and not before; while the event loop keeps running, no copy is
\* left without its delete call.
AutoDeleteFollows ==
    /\ []DeleteTargets
    /\ [][DeleteAfterDuration]_vars
    /\ \A n \in 1..MaxContacts : AutoDeleteCopy(n) ~> (DeletesOf(n) # {})

AutoDeleteWitness ==
    /\ bcast.pc = "returned"
    /\ bcast.broadcast_type = "auto_delete"
    /\ Len(contacts) = 2
    /\ AutoDeleteCopy(1)
    /\ DeletesOf(1) = {2}
    /\ now = bcast.sent_at + bcast.duration

\* C27: channel_post waits and copies the message to the db channel once
\* more when the copy was rate-limited, and only then: one copy call, or two
\* with the first one rate-limited, never more.
ArchiveRetriedOnce ==
    /\ Len(archive) <= 2
    /\ Len(archive) = 2 => archive[1] = "flood"
    /\ (archive # <<>> /\ archive[1] = "flood") => Len(archive) = 2

\* the recipients the call has counted in success
CountedDelivered ==
    Finished \ (FirstEnded("blocked") \cup FirstEnded("deactivated")
                \cup FirstEnded("error") \cup RetryFailed)

\* C28: a recipient is counted Delivered only if a copy of the broadcast
\* message reached it in this call, in auto_delete mode after a rate-limited
\* first attempt too.
DeliveredMeansCopied ==
    /\ bcast.success = Cardinality(CountedDelivered)
    /\ \A u \in CountedDelivered : Copies(u) # {}

\* the copies sent in auto_delete mode that had no delete call yet
AwaitingDeletion ==
    {n \in 1..Len(contacts) : AutoDeleteCopy(n) /\ DeletesOf(n) = {}}

\* a step that calls message.copy in auto_delete mode finds no copy waiting
CopyFindsNoneWaiting ==
    ( /\ bcast.broadcast_type = "auto_delete"
      /\ Len(contacts') = Len(contacts) + 1
      /\ contacts'[Len(contacts')].op = "copy" ) => AwaitingDeletion = {}

\* C29: an auto_delete broadcast handles its recipients one after the other:
\* the copy for the next recipient is not sent before the delete call on the
\* previous recipient's copy was made (or the previous recipient got no
\* copy), so at most one copy is waiting for its deletion at any time.
AutoDeleteSerialized ==
    /\ [](Cardinality(AwaitingDeletion) <= 1)
    /\ [][CopyFindsNoneWaiting]_vars

AutoDeleteSerializedWitness ==
    /\ bcast.broadcast_type = "auto_delete"
    /\ bcast.pc = "sleep"
    /\ bcast.n = 2
    /\ Len(contacts) = 3
    /\ DeletesOf(1) = {2}
    /\ AwaitingDeletion = {3}

\* a step that makes a call of the retry block which fails
RetryFails ==
    /\ Len(contacts') = Len(contacts) + 1
    /\ contacts'[Len(contacts')].attempt = 2
    /\ contacts'[Len(contacts')].outcome # "ok"

\* C30: when the retry after a rate limit fails, whatever the failure is
\* (blocked, deactivated, a second rate limit, anything else), the recipient
\* is counted Failed, not Blocked or Deactivated, it stays in the user
\* collection, and its iteration is over.
RetryFailureIsFailed ==
    /\ [](\A u \in RetryFailed : u \in Finished /\ u \in users)
    /\ [][RetryFails =>
             /\ bcast'.failed = bcast.failed + 1
             /\ bcast'.blocked = bcast.blocked
             /\ bcast'.deleted = bcast.deleted
             /\ bcast'.success = bcast.success
             /\ bcast'.n = bcast.n + 1
             /\ users' = users]_vars

RetryBlockedWitness ==
    /\ bcast.pc = "returned"
    /\ Len(contacts) = 2
    /\ contacts[1].outcome = "flood"
    /\ contacts[2].attempt = 2
    /\ contacts[2].outcome = "blocked"
    /\ bcast.failed = 1
    /\ bcast.blocked = 0
    /\ 1 \in users

====
